---- MODULE Spec2Model ----
(***************************************************************************)
(* kvapp: an HTTP front end to one sled database (src/src/main.rs).        *)
(*                                                                         *)
(* The state is the ServerState behind Arc<Mutex<..>> (nickname + store),  *)
(* the mutex, and the handler invocations in flight.  An invocation is     *)
(* dispatched by the router, blocks in m_state.lock(), runs its body       *)
(* inside the critical section and releases the guard when it returns.     *)
(* The sled calls get/insert/remove are fallible: each call either         *)
(* succeeds or returns Err, chosen by the environment.                     *)
(***************************************************************************)
EXTENDS Integers, Sequences, FiniteSets, TLC

----------------------------------------------------------------------------
(* Bounds of the model *)

MaxReqs == 3
MaxSeqReqs == 3
MaxBootReqs == 2
MaxLiveReqs == 2
NumWorkers == 2

Workers == 1..NumWorkers

(* Path segments and payloads the requests are drawn from.  K1 and V1 are  *)
(* the key and payload of the repository's tests; DEF_DB_NAME is the      *)
(* nickname the store is served under, OtherName one it is not.            *)
K1 == "1"
V1 == "helloworld"
Keys == {K1, "2"}
Vals == {V1, "x"}
None == "<none>"
DEF_DB_NAME == "db"
OtherName == "other"

----------------------------------------------------------------------------
(* Program constants *)

APPNAME == "kvapp"
DEF_DB_DIR == "db.kv"

NoHolder == 0

----------------------------------------------------------------------------
(* Requests.  The requests of concurrent clients are the ones the router   *)
(* hands to a handler: GET /, and GET, PUT and DELETE on /api/{db}/{key}   *)
(* with the configured nickname (every key; every payload on K1) and with  *)
(* a nickname that is not configured.  A client that sends one request at  *)
(* a time, as the repository's tests do, also sends the requests no route  *)
(* matches: GET /health, and GET, PUT and DELETE on /api/{key}.            *)

Request(m, p, b) == [method |-> m, path |-> p, body |-> b]

OnPath(p, vals) ==
  {Request("GET", p, None), Request("DELETE", p, None)}
    \cup {Request("PUT", p, v) : v \in vals}

Requests ==
  {Request("GET", <<>>, None)}
    \cup OnPath(<<"api", DEF_DB_NAME, K1>>, Vals)
    \cup UNION {OnPath(<<"api", DEF_DB_NAME, k>>, {V1}) : k \in Keys \ {K1}}
    \cup OnPath(<<"api", OtherName, K1>>, {V1})

TestRequests ==
  Requests
    \cup {Request("GET", <<"health">>, None)}
    \cup OnPath(<<"api", K1>>, {V1})

NoReq == [method |-> "", path |-> <<>>, body |-> None]

----------------------------------------------------------------------------
(* Responses: status, payload kind and content; the index document also    *)
(* carries the application name and the list of database names.            *)

Response(status, kind, val) ==
  [status |-> status, kind |-> kind, val |-> val, app |-> "", dbs |-> <<>>]

err_not_found == Response(404, "error", "-404 not found")

err_500 == Response(500, "error", "-500 internal server error")

ok_binary(val) == Response(200, "binary", val)

ok_json_result == Response(200, "json", "result true")

ok_json_index(app, nick) ==
  [status |-> 200, kind |-> "json", val |-> "", app |-> app, dbs |-> <<nick>>]

(* What the server answers when no resource matches the path, and when a   *)
(* resource matches but none of its routes accepts the method.             *)
default_not_found == Response(404, "empty", "")

default_method_not_allowed == Response(405, "empty", "")

----------------------------------------------------------------------------
(* The sled calls.  ok is the engine's verdict for this call: with ok      *)
(* FALSE the call returns Err and the tree is left as it was.              *)

StoreResult(err, val, db) == [err |-> err, val |-> val, db |-> db]

db_get(db, ok, key) ==
  IF ok THEN StoreResult(FALSE, db[key], db) ELSE StoreResult(TRUE, None, db)

(* insert that reports success without storing the record *)
db_insert_lost(db, ok, key, val) ==
  IF ok THEN StoreResult(FALSE, db[key], db) ELSE StoreResult(TRUE, None, db)

db_insert(db, ok, key, val) ==
  IF ok THEN StoreResult(FALSE, db[key], [db EXCEPT ![key] = val])
        ELSE StoreResult(TRUE, None, db)

(* remove that returns the record and leaves it in the tree *)
db_remove_keeps(db, ok, key) ==
  IF ok THEN StoreResult(FALSE, db[key], db) ELSE StoreResult(TRUE, None, db)

(* remove that clears the whole tree *)
db_remove_all(db, ok, key) ==
  IF ok THEN StoreResult(FALSE, db[key], [k \in DOMAIN db |-> None])
        ELSE StoreResult(TRUE, None, db)

db_remove(db, ok, key) ==
  IF ok THEN StoreResult(FALSE, db[key], [db EXCEPT ![key] = None])
        ELSE StoreResult(TRUE, None, db)

----------------------------------------------------------------------------
(* The handler bodies, run with the guard held.  state is the ServerState, *)
(* path the matched segments <<"api", db, key>>.  The result gives the     *)
(* response, the store afterwards, the number of sled calls made and the   *)
(* arm of the match that produced the response.                            *)

Handled(resp, db, calls, arm) ==
  [resp |-> resp, db |-> db, calls |-> calls, arm |-> arm]

(* index that lists the store directory in place of the nickname *)
req_index_path(state) ==
  Handled(ok_json_index(APPNAME, DEF_DB_DIR), state.db, 0, "index")

req_index(state) ==
  Handled(ok_json_index(APPNAME, state.name), state.db, 0, "index")

(* delete whose None arm answers like the Some arm *)
req_delete_absent_ok(state, ok, path) ==
  IF state.name # path[2]
    THEN Handled(err_not_found, state.db, 0, "nickname")
    ELSE LET r == db_remove(state.db, ok, path[3]) IN
         IF r.err THEN Handled(err_500, r.db, 1, "err")
         ELSE Handled(ok_json_result, r.db, 1, "some")

req_delete(state, ok, path) ==
  IF state.name # path[2]
    THEN Handled(err_not_found, state.db, 0, "nickname")
    ELSE LET r == db_remove(state.db, ok, path[3]) IN
         IF r.err THEN Handled(err_500, r.db, 1, "err")
         ELSE IF r.val # None THEN Handled(ok_json_result, r.db, 1, "some")
         ELSE Handled(err_not_found, r.db, 1, "none")

(* get that calls the store a second time when the first call fails *)
req_get_retry(state, ok, path) ==
  IF state.name # path[2]
    THEN Handled(err_not_found, state.db, 0, "nickname")
    ELSE LET r == db_get(state.db, ok, path[3]) IN
         IF r.err
           THEN LET r2 == db_get(r.db, ok, path[3]) IN
                Handled(err_500, r2.db, 2, "err")
         ELSE IF r.val # None THEN Handled(ok_binary(r.val), r.db, 1, "some")
         ELSE Handled(err_not_found, r.db, 1, "none")

req_get(state, ok, path) ==
  IF state.name # path[2]
    THEN Handled(err_not_found, state.db, 0, "nickname")
    ELSE LET r == db_get(state.db, ok, path[3]) IN
         IF r.err THEN Handled(err_500, r.db, 1, "err")
         ELSE IF r.val # None THEN Handled(ok_binary(r.val), r.db, 1, "some")
         ELSE Handled(err_not_found, r.db, 1, "none")

(* put whose Err arm answers like the Ok arm *)
req_put_err_ok(state, ok, path, body) ==
  IF state.name # path[2]
    THEN Handled(err_not_found, state.db, 0, "nickname")
    ELSE LET r == db_insert(state.db, ok, path[3], body) IN
         IF r.err THEN Handled(ok_json_result, r.db, 1, "err")
         ELSE Handled(ok_json_result, r.db, 1, "ok")

(* put that skips the nickname check *)
req_put_any_nickname(state, ok, path, body) ==
  LET r == db_insert(state.db, ok, path[3], body) IN
  IF r.err THEN Handled(err_500, r.db, 1, "err")
  ELSE Handled(ok_json_result, r.db, 1, "ok")

req_put(state, ok, path, body) ==
  IF state.name # path[2]
    THEN Handled(err_not_found, state.db, 0, "nickname")
    ELSE LET r == db_insert(state.db, ok, path[3], body) IN
         IF r.err THEN Handled(err_500, r.db, 1, "err")
         ELSE Handled(ok_json_result, r.db, 1, "ok")

----------------------------------------------------------------------------
(* Routing: the services registered on the App.                            *)

Route(r) ==
  IF r.path = <<>>
    THEN IF r.method = "GET" THEN "req_index" ELSE "not_found"
  ELSE IF Len(r.path) = 3 /\ r.path[1] = "api"
    THEN CASE r.method = "GET" -> "req_get"
           [] r.method = "PUT" -> "req_put"
           [] r.method = "DELETE" -> "req_delete"
           [] OTHER -> "method_not_allowed"
  ELSE "not_found"

DefaultResponse(h) ==
  IF h = "method_not_allowed" THEN default_method_not_allowed
                              ELSE default_not_found

IsHandler(h) == h \in {"req_index", "req_get", "req_put", "req_delete"}

RunHandler(h, state, ok, r) ==
  CASE h = "req_index" -> req_index(state)
    [] h = "req_get" -> req_get(state, ok, r.path)
    [] h = "req_put" -> req_put(state, ok, r.path, r.body)
    [] h = "req_delete" -> req_delete(state, ok, r.path)

----------------------------------------------------------------------------
(* Startup: the configuration file and the store it names.  A file is      *)
(* readable or not, is JSON or not, and as JSON may carry a "databases"    *)
(* list and a "database" object of {name, path} entries.                   *)

DbConfig(n, p) == [name |-> n, path |-> p]

NoDbConfig == DbConfig("", "")

ConfigFile(readable, json, has_list, list, has_single, single) ==
  [readable |-> readable, json |-> json, has_databases |-> has_list,
   databases |-> list, has_database |-> has_single, database |-> single]

(* Store directories sled can open, and one it cannot. *)
BadDir == "nodir/kv"
OtherDir == "other.kv"

(* sled::Config::default().path(db_path).open() *)
db_open(path) == path # BadDir

(* fs::read_to_string(cfg_fn) *)
ReadConfig(file) == file.readable

(* a parser that takes a file without a "databases" list as an empty one *)
ParseConfigLenient(file) == file.json

(* serde_json::from_str::<ServerConfig>: the text must be JSON with a      *)
(* "databases" list; fields the struct does not name are ignored.          *)
ParseConfig(file) == file.json /\ file.has_databases

(* the last database entry in place of the first *)
ResolveConfigLast(file) ==
  IF Len(file.databases) = 0 THEN DbConfig(DEF_DB_NAME, DEF_DB_DIR)
                             ELSE file.databases[Len(file.databases)]

(* the defaults whatever the file lists *)
ResolveConfigDefault(file) == DbConfig(DEF_DB_NAME, DEF_DB_DIR)

(* The first database entry, or the defaults when the list is empty. *)
ResolveConfig(file) ==
  IF Len(file.databases) = 0 THEN DbConfig(DEF_DB_NAME, DEF_DB_DIR)
                             ELSE file.databases[1]

(* The file of a process that was started with no database configured. *)
DefaultFile == ConfigFile(TRUE, TRUE, TRUE, <<>>, FALSE, NoDbConfig)

ConfigFiles ==
  {ConfigFile(FALSE, FALSE, FALSE, <<>>, FALSE, NoDbConfig),
   ConfigFile(TRUE, FALSE, FALSE, <<>>, FALSE, NoDbConfig),
   ConfigFile(TRUE, TRUE, FALSE, <<>>, FALSE, NoDbConfig),
   ConfigFile(TRUE, TRUE, FALSE, <<>>, TRUE, DbConfig(OtherName, OtherDir)),
   DefaultFile,
   ConfigFile(TRUE, TRUE, TRUE, <<DbConfig(OtherName, OtherDir)>>, FALSE,
              NoDbConfig),
   ConfigFile(TRUE, TRUE, TRUE, <<DbConfig(OtherName, BadDir)>>, FALSE,
              NoDbConfig),
   ConfigFile(TRUE, TRUE, TRUE,
              <<DbConfig(OtherName, OtherDir), DbConfig(DEF_DB_NAME, DEF_DB_DIR)>>,
              FALSE, NoDbConfig),
   ConfigFile(TRUE, TRUE, TRUE,
              <<DbConfig(DEF_DB_NAME, DEF_DB_DIR), DbConfig(OtherName, BadDir)>>,
              FALSE, NoDbConfig)}

Boot(phase, file, path, built) ==
  [phase |-> phase, file |-> file, path |-> path, built |-> built]

----------------------------------------------------------------------------
(* State *)

VARIABLES
  name,     \* ServerState.name, the nickname from the configuration
  db,       \* ServerState.db, the tree: key -> value or None
  lock,     \* the Mutex: NoHolder or the worker holding the guard
  pc,       \* worker -> "idle" | "wait" (in lock()) | "held" (has the guard)
  req,      \* worker -> the request it is serving
  ticket,   \* worker -> its position in the order of lock acquisitions
  nacq,     \* lock acquisitions so far
  log,      \* requests answered so far, in the order their answer was decided
  boot      \* the process: phase "start" | "serving" | "exited", its
            \* configuration file, the store directory it opened, and how
            \* many times it constructed a ServerState

vars == <<name, db, lock, pc, req, ticket, nacq, log, boot>>

(* A log entry: the request, the handler it reached, the handler's place   *)
(* in the order of lock acquisitions (0: none), whether it held the guard, *)
(* the engine's verdict on its sled call (TRUE when it made none), and     *)
(* what the handler did and answered.                                      *)
(* A DELETE is answered while another DELETE of the same path, received   *)
(* by another worker, has not been answered yet.                           *)
Overlaps(r, tk) ==
  /\ r.method = "DELETE"
  /\ \E x \in Workers :
       /\ pc[x] # "idle" /\ ticket[x] # tk
       /\ req[x].method = "DELETE" /\ req[x].path = r.path

Entry(r, h, tk, locked, ok, res) ==
  [method |-> r.method, path |-> r.path, body |-> r.body, handler |-> h,
   tk |-> tk, locked |-> locked, ok |-> ok, resp |-> res.resp,
   calls |-> res.calls, arm |-> res.arm, overlap |-> Overlaps(r, tk)]

InFlight == {w \in Workers : pc[w] # "idle"}

(* The server once main has built its ServerState from a configuration    *)
(* that names no database: the defaults are served, the store is empty.    *)
Init ==
  /\ name = DEF_DB_NAME
  /\ db = [k \in Keys |-> None]
  /\ lock = NoHolder
  /\ pc = [w \in Workers |-> "idle"]
  /\ req = [w \in Workers |-> NoReq]
  /\ ticket = [w \in Workers |-> 0]
  /\ nacq = 0
  /\ log = <<>>
  /\ boot = Boot("serving", DefaultFile, DEF_DB_DIR, 1)

(* The process as it is launched, with any of the configuration files.     *)
InitBoot ==
  /\ name = ""
  /\ db = [k \in Keys |-> None]
  /\ lock = NoHolder
  /\ pc = [w \in Workers |-> "idle"]
  /\ req = [w \in Workers |-> NoReq]
  /\ ticket = [w \in Workers |-> 0]
  /\ nacq = 0
  /\ log = <<>>
  /\ \E f \in ConfigFiles : boot = Boot("start", f, "", 0)

(* main up to HttpServer::new: read and parse the configuration (an error  *)
(* returns from main), pick the database entry, open the store (a failure  *)
(* panics) and build the ServerState.                                      *)
Startup ==
  /\ boot.phase = "start"
  /\ IF ~ReadConfig(boot.file) \/ ~ParseConfig(boot.file)
       THEN /\ boot' = [boot EXCEPT !.phase = "exited"]
            /\ name' = name
       ELSE LET cfg == ResolveConfig(boot.file) IN
            IF ~db_open(cfg.path)
              THEN /\ boot' = [boot EXCEPT !.phase = "exited"]
                   /\ name' = name
              ELSE /\ boot' = Boot("serving", boot.file, cfg.path, boot.built + 1)
                   /\ name' = cfg.name
  /\ UNCHANGED <<db, lock, pc, req, ticket, nacq, log>>

(* The router hands a request that matches a handler to a free worker      *)
(* (the lowest: workers are interchangeable), at most max requests in all. *)
Dispatch(w, r, max) ==
  /\ boot.phase = "serving"
  /\ pc[w] = "idle"
  /\ \A v \in Workers : v < w => pc[v] # "idle"
  /\ Len(log) + Cardinality(InFlight) < max
  /\ IsHandler(Route(r))
  /\ pc' = [pc EXCEPT ![w] = "wait"]
  /\ req' = [req EXCEPT ![w] = r]
  /\ UNCHANGED <<name, db, lock, ticket, nacq, log, boot>>

(* A request no handler matches is answered by the router itself, without  *)
(* touching the ServerState.                                               *)
Unmatched(r, max) ==
  /\ boot.phase = "serving"
  /\ Len(log) + Cardinality(InFlight) < max
  /\ ~IsHandler(Route(r))
  /\ log' = Append(log, Entry(r, Route(r), 0, FALSE, TRUE,
                              Handled(DefaultResponse(Route(r)), db, 0, "router")))
  /\ UNCHANGED <<name, db, lock, pc, req, ticket, nacq, boot>>

(* m_state.lock().unwrap(): blocks until the mutex is free. *)
(* a lock that never blocks *)
LockNeverBlocks(l) == TRUE

LockFree(l) == l = NoHolder

Acquire(w) ==
  /\ pc[w] = "wait"
  /\ LockFree(lock)
  /\ lock' = w
  /\ nacq' = nacq + 1
  /\ ticket' = [ticket EXCEPT ![w] = nacq + 1]
  /\ pc' = [pc EXCEPT ![w] = "held"]
  /\ UNCHANGED <<name, db, req, log, boot>>

(* a guard that is leaked: the lock stays held after the return *)
ReleaseNever(l, w) == l

(* The guard goes out of scope when the handler returns. *)
Release(l, w) == IF l = w THEN NoHolder ELSE l

(* The handler after the lock: the nickname check, the sled call (ok is    *)
(* the engine's verdict for it), the response built from its result, and   *)
(* the return, which drops the guard and sends the response.               *)
Handle(w, ok) ==
  /\ pc[w] = "held"
  /\ LET h == Route(req[w])
         res == RunHandler(h, [name |-> name, db |-> db], ok, req[w]) IN
       /\ db' = res.db
       /\ log' = Append(log, Entry(req[w], h, ticket[w], lock = w,
                                 ok \/ res.calls = 0, res))
  /\ lock' = Release(lock, w)
  /\ pc' = [pc EXCEPT ![w] = "idle"]
  /\ req' = [req EXCEPT ![w] = NoReq]
  /\ ticket' = [ticket EXCEPT ![w] = 0]
  /\ UNCHANGED <<name, nacq, boot>>

(* Concurrent clients: up to NumWorkers handler invocations in flight.     *)
Next ==
  \/ \E w \in Workers, r \in Requests : Dispatch(w, r, MaxReqs)
  \/ \E w \in Workers : Acquire(w)
  \/ \E w \in Workers, ok \in BOOLEAN : Handle(w, ok)

Spec == Init /\ [][Next]_vars

(* Concurrent clients under fair scheduling: a handler that holds the lock *)
(* runs to its return, and a thread blocked in lock() takes the mutex if   *)
(* it stays free.                                                          *)
NextLive ==
  \/ \E w \in Workers, r \in Requests : Dispatch(w, r, MaxLiveReqs)
  \/ \E w \in Workers : Acquire(w)
  \/ \E w \in Workers, ok \in BOOLEAN : Handle(w, ok)

Fairness ==
  \A w \in Workers :
    /\ WF_vars(Acquire(w))
    /\ WF_vars(\E ok \in BOOLEAN : Handle(w, ok))

SpecLive == Init /\ [][NextLive]_vars /\ Fairness

(* One client that sends its next request when the last one was answered.  *)
NextSeq ==
  \/ \E r \in TestRequests : InFlight = {} /\ Dispatch(1, r, MaxSeqReqs)
  \/ \E r \in TestRequests : InFlight = {} /\ Unmatched(r, MaxSeqReqs)
  \/ \E w \in Workers : Acquire(w)
  \/ \E w \in Workers, ok \in BOOLEAN : Handle(w, ok)

SpecSeq == Init /\ [][NextSeq]_vars

(* The process from its launch: startup, then the requests of concurrent   *)
(* clients addressed to either nickname.                                   *)
BootRequests ==
  {Request("GET", <<>>, None)}
    \cup {Request(m, <<"api", n, K1>>, IF m = "PUT" THEN V1 ELSE None) :
            m \in {"GET", "PUT"}, n \in {DEF_DB_NAME, OtherName}}

NextBoot ==
  \/ Startup
  \/ \E w \in Workers, r \in BootRequests : Dispatch(w, r, MaxBootReqs)
  \/ \E w \in Workers : Acquire(w)
  \/ \E w \in Workers, ok \in BOOLEAN : Handle(w, ok)

SpecBoot == InitBoot /\ [][NextBoot]_vars

----------------------------------------------------------------------------
(* Reading the log.  A request is on key k when its path is /api/{k}, or   *)
(* /api/{db}/{k} with db the configured nickname.                          *)

KeyOf(e) ==
  IF Len(e.path) = 2 /\ e.path[1] = "api" THEN e.path[2]
  ELSE IF Len(e.path) = 3 /\ e.path[1] = "api" /\ e.path[2] = name THEN e.path[3]
  ELSE None

OnKey(e, k) == KeyOf(e) = k

IsOn(e, m, k) == e.method = m /\ OnKey(e, k)

Ok200(e) == e.resp.status = 200

(* No PUT of k was answered 200 before entry i. *)
NeverWritten(i, k) ==
  \A j \in 1..(i - 1) : ~(IsOn(log[j], "PUT", k) /\ Ok200(log[j]))

(* No PUT of k lies strictly between entries i and j. *)
NoPutBetween(i, j, k) ==
  \A m \in (i + 1)..(j - 1) : ~IsOn(log[m], "PUT", k)

(* The answer to a request on an absent key: 404, or 500 when the sled     *)
(* call failed.                                                            *)
AbsentAnswer(e) ==
  /\ e.resp.status \in {404, 500}
  /\ e.resp.status = 500 <=> ~e.ok

----------------------------------------------------------------------------
(* C1: a PUT /api/{k} with body v immediately followed by GET /api/{k}     *)
(* makes the GET return 200 with a body exactly equal to v.                *)
C1_PutThenGet ==
  \A i \in 1..(Len(log) - 1) : \A k \in Keys :
    (IsOn(log[i], "PUT", k) /\ IsOn(log[i + 1], "GET", k))
      => log[i + 1].resp = ok_binary(log[i].body)

(* C2: for a key k never written, GET /api/{k} and DELETE /api/{k} each    *)
(* return 404.                                                             *)
C2_NeverWritten404 ==
  \A i \in 1..Len(log) : \A k \in Keys :
    ((IsOn(log[i], "GET", k) \/ IsOn(log[i], "DELETE", k)) /\ NeverWritten(i, k))
      => log[i].resp.status = 404

(* C2, amended: for a key k never written, GET and DELETE of k return 404, *)
(* or 500 when the engine call fails; never 200.                           *)
C2_NeverWrittenAbsent ==
  \A i \in 1..Len(log) : \A k \in Keys :
    ((IsOn(log[i], "GET", k) \/ IsOn(log[i], "DELETE", k)) /\ NeverWritten(i, k))
      => AbsentAnswer(log[i])

(* A GET and a DELETE of a never-written key were answered 404 after       *)
(* another key was written.                                                *)
C2_Witness ==
  \E k \in Keys : \E k2 \in Keys \ {k} :
    \E h \in 1..Len(log), i \in 1..Len(log), j \in 1..Len(log) :
      /\ h < i /\ h < j
      /\ IsOn(log[h], "PUT", k2) /\ Ok200(log[h])
      /\ NeverWritten(Len(log) + 1, k)
      /\ IsOn(log[i], "GET", k) /\ log[i].handler = "req_get"
      /\ log[i].resp.status = 404
      /\ IsOn(log[j], "DELETE", k) /\ log[j].resp.status = 404

(* C3: after a DELETE /api/{k} has returned 200, a repeated DELETE with no *)
(* PUT of k in between returns 404, and so does a GET in that window.      *)
C3_DeleteThen404 ==
  \A i \in 1..Len(log) : \A j \in (i + 1)..Len(log) : \A k \in Keys :
    (/\ IsOn(log[i], "DELETE", k) /\ Ok200(log[i])
     /\ (IsOn(log[j], "DELETE", k) \/ IsOn(log[j], "GET", k))
     /\ NoPutBetween(i, j, k))
      => log[j].resp.status = 404

(* C3, amended: after a DELETE of k has returned 200, a repeated DELETE    *)
(* or a GET of k with no PUT of k in between never returns 200: it returns *)
(* 404, or 500 when the engine call fails.                                 *)
C3_DeleteThenAbsent ==
  \A i \in 1..Len(log) : \A j \in (i + 1)..Len(log) : \A k \in Keys :
    (/\ IsOn(log[i], "DELETE", k) /\ Ok200(log[i])
     /\ (IsOn(log[j], "DELETE", k) \/ IsOn(log[j], "GET", k))
     /\ NoPutBetween(i, j, k))
      => AbsentAnswer(log[j])

(* A DELETE answered 200 was repeated and answered 404. *)
C3_Witness ==
  \E k \in Keys : \E i \in 1..Len(log) : \E j \in (i + 1)..Len(log) :
    /\ IsOn(log[i], "DELETE", k) /\ Ok200(log[i])
    /\ IsOn(log[j], "DELETE", k) /\ log[j].resp.status = 404
    /\ NoPutBetween(i, j, k)

(* C4: PUT /api/{k} with v1, then PUT /api/{k} with v2, then GET /api/{k}  *)
(* returns 200 with body exactly v2, and both PUTs return 200.             *)
C4_Overwrite ==
  \A i \in 1..(Len(log) - 2) : \A k \in Keys :
    (IsOn(log[i], "PUT", k) /\ IsOn(log[i + 1], "PUT", k)
       /\ IsOn(log[i + 2], "GET", k))
      => /\ Ok200(log[i]) /\ Ok200(log[i + 1])
         /\ log[i + 2].resp = ok_binary(log[i + 1].body)

----------------------------------------------------------------------------
(* The sequential store the responses are compared with: one map, the      *)
(* requests applied one at a time in the order of their tickets.  A call   *)
(* the engine fails is answered 500 and changes nothing; a request for     *)
(* another nickname is answered 404 and changes nothing.                   *)

StoreOps == {"req_get", "req_put", "req_delete"}

Addressed(e) == e.path[2] = name

SeqApply(m, e) ==
  IF ~Addressed(e) \/ ~e.ok THEN m
  ELSE CASE e.method = "PUT" -> [m EXCEPT ![e.path[3]] = e.body]
         [] e.method = "DELETE" -> [m EXCEPT ![e.path[3]] = None]
         [] OTHER -> m

SeqAnswer(m, e) ==
  IF ~Addressed(e) THEN err_not_found
  ELSE IF ~e.ok THEN err_500
  ELSE CASE e.method = "PUT" -> ok_json_result
         [] e.method = "DELETE" ->
              IF m[e.path[3]] # None THEN ok_json_result ELSE err_not_found
         [] OTHER ->
              IF m[e.path[3]] # None THEN ok_binary(m[e.path[3]])
                                     ELSE err_not_found

Ticketed(t) == {i \in 1..Len(log) : log[i].tk = t /\ log[i].handler \in StoreOps}

(* The map after the logged store requests with tickets 1..t. *)
RECURSIVE SeqMap(_)
SeqMap(t) ==
  IF t = 0 THEN [k \in Keys |-> None]
  ELSE IF Ticketed(t) = {} THEN SeqMap(t - 1)
  ELSE SeqApply(SeqMap(t - 1), log[CHOOSE i \in Ticketed(t) : TRUE])

(* C5: every response of a get, put or delete handler equals the response  *)
(* of a sequential store to which the requests are applied one at a time   *)
(* in the order in which they acquired the lock, and the store ends up as  *)
(* that sequential store does.                                             *)
C5_Linearizable ==
  /\ \A i \in 1..Len(log) :
       log[i].handler \in StoreOps
         => log[i].resp = SeqAnswer(SeqMap(log[i].tk - 1), log[i])
  /\ (\A w \in Workers : pc[w] # "held") => db = SeqMap(nacq)

(* Requests on one key overlapped: a PUT of k was answered, then a GET of  *)
(* k saw its value while a DELETE of k, dispatched to the second worker    *)
(* because the first was busy, still waits in lock().                      *)
C5_Witness ==
  /\ Len(log) = 2
  /\ \E k \in Keys :
       /\ IsOn(log[1], "PUT", k) /\ Ok200(log[1])
       /\ IsOn(log[2], "GET", k) /\ log[2].resp = ok_binary(log[1].body)
       /\ log[1].tk < log[2].tk
       /\ pc[1] = "idle" /\ pc[2] = "wait"
       /\ req[2] = Request("DELETE", <<"api", name, k>>, None)

(* C6: a GET of k that acquires the lock after a PUT of k has completed    *)
(* its critical section returns 200 with the value that PUT wrote.         *)
C6_GetSeesPut ==
  \A i \in 1..Len(log) : \A j \in (i + 1)..Len(log) : \A k \in Keys :
    (/\ IsOn(log[i], "PUT", k) /\ Ok200(log[i])
     /\ IsOn(log[j], "GET", k) /\ log[i].tk < log[j].tk)
      => log[j].resp = ok_binary(log[i].body)

(* No PUT or DELETE of k answered 200 lies strictly between i and j. *)
NoWriteBetween(i, j, k) ==
  \A m \in (i + 1)..(j - 1) :
    ~((IsOn(log[m], "PUT", k) \/ IsOn(log[m], "DELETE", k)) /\ Ok200(log[m]))

(* C6, amended: a GET of k that acquires the lock after a PUT of k has     *)
(* completed its critical section with 200, with no other PUT or DELETE of *)
(* k answered 200 in between, returns 200 with the value that PUT wrote,   *)
(* or 500 when the GET's engine call fails.                                *)
C6_GetSeesLastPut ==
  \A i \in 1..Len(log) : \A j \in (i + 1)..Len(log) : \A k \in Keys :
    (/\ IsOn(log[i], "PUT", k) /\ Ok200(log[i])
     /\ IsOn(log[j], "GET", k) /\ log[i].tk < log[j].tk
     /\ NoWriteBetween(i, j, k))
      => IF log[j].ok THEN log[j].resp = ok_binary(log[i].body)
                      ELSE log[j].resp = err_500

(* A GET saw the value of an earlier PUT while another request on another  *)
(* key ran in between.                                                     *)
C6_Witness ==
  /\ Len(log) = 3
  /\ \E k \in Keys :
       /\ IsOn(log[1], "PUT", k) /\ Ok200(log[1])
       /\ ~OnKey(log[2], k) /\ log[2].handler \in StoreOps
       /\ IsOn(log[3], "GET", k) /\ log[3].resp = ok_binary(log[1].body)

(* C7: at most one handler is inside a critical section on ServerState;    *)
(* a handler makes at most one store call while it holds the lock, and no  *)
(* store call is made without holding it.                                  *)
C7_MutualExclusion ==
  /\ Cardinality({w \in Workers : pc[w] = "held"}) <= 1
  /\ \A w \in Workers : pc[w] = "held" <=> lock = w
  /\ \A i \in 1..Len(log) :
       /\ log[i].calls <= 1
       /\ log[i].calls > 0 => log[i].locked
       /\ log[i].tk > 0 => log[i].locked

(* One handler is in its critical section while another waits in lock(),   *)
(* and a handler has made its store call under the lock.                   *)
C7_Witness ==
  /\ \E w \in Workers, v \in Workers : pc[w] = "held" /\ pc[v] = "wait"
  /\ \E i \in 1..Len(log) : log[i].calls = 1 /\ log[i].locked

(* C8: GET /health is answered 200 (store reachable) or 500 (store         *)
(* unreachable), never 404.                                                *)
C8_Health ==
  \A i \in 1..Len(log) :
    (log[i].method = "GET" /\ log[i].path = <<"health">>)
      => log[i].resp.status \in {200, 500}

InSeq(x, q) == \E n \in 1..Len(q) : q[n] = x

(* C9: GET / always returns 200 with a body that contains the application  *)
(* name and the configured nickname.                                       *)
C9_Index ==
  \A i \in 1..Len(log) :
    (log[i].method = "GET" /\ log[i].path = <<>>)
      => /\ log[i].resp.status = 200
         /\ log[i].resp.app = APPNAME
         /\ InSeq(name, log[i].resp.dbs)

(* GET / was answered after a PUT was stored and an engine call failed.    *)
C9_Witness ==
  \E h \in 1..Len(log), i \in 1..Len(log), j \in 1..Len(log) :
    /\ h < j /\ i < j
    /\ log[h].method = "PUT" /\ Ok200(log[h])
    /\ log[i].resp.status = 500
    /\ log[j].path = <<>> /\ log[j].handler = "req_index" /\ Ok200(log[j])

(* C10: every get, put and delete handler invocation performs exactly one  *)
(* store operation and answers 200, 404 or 500.                            *)
C10_ExactlyOneCall ==
  \A i \in 1..Len(log) :
    log[i].handler \in StoreOps
      => log[i].calls = 1 /\ log[i].resp.status \in {200, 404, 500}

(* C10, amended: every get, put and delete handler invocation performs at  *)
(* most one store operation and never retries: exactly one when the        *)
(* nickname in the path is the configured one, none otherwise (answered    *)
(* 404); its answer is 500 exactly when the store operation failed, and    *)
(* 200 or 404 otherwise.                                                   *)
C10_OneCallUnlessNickname ==
  \A i \in 1..Len(log) :
    log[i].handler \in StoreOps
      => /\ log[i].calls = (IF Addressed(log[i]) THEN 1 ELSE 0)
         /\ log[i].resp.status \in {200, 404, 500}
         /\ log[i].resp.status = 500 <=> (log[i].calls = 1 /\ ~log[i].ok)
         /\ ~Addressed(log[i]) => log[i].resp.status = 404

(* Handlers made one store call each and answered 200, 404 and 500.        *)
C10_Witness ==
  \A st \in {200, 404, 500} :
    \E i \in 1..Len(log) :
      /\ log[i].handler \in StoreOps /\ log[i].calls = 1
      /\ log[i].resp.status = st

----------------------------------------------------------------------------
(* C15: a get, put or delete addressed to a nickname other than the        *)
(* configured one is answered 404 with the not-found error body, exactly   *)
(* as a missing key is, makes no store call and leaves the store           *)
(* unchanged: a PUT to a wrong nickname writes nothing.                    *)
C15_WrongNickname ==
  [][Len(log') > Len(log)
       => LET e == log'[Len(log')] IN
          (e.handler \in StoreOps /\ e.path[2] # name)
            => e.resp = err_not_found /\ e.calls = 0 /\ db' = db]_vars

(* A PUT to a wrong nickname was answered 404 after a PUT of the same key  *)
(* to the configured nickname, and the key still holds the earlier value;  *)
(* a GET of a missing key got the same response.                           *)
C15_Witness ==
  \E i \in 1..Len(log) : \E j \in (i + 1)..Len(log) : \E m \in 1..Len(log) :
    /\ log[i].handler = "req_put" /\ Addressed(log[i]) /\ Ok200(log[i])
    /\ log[j].handler = "req_put" /\ ~Addressed(log[j])
    /\ log[j].path[3] = log[i].path[3] /\ log[j].body # log[i].body
    /\ log[j].resp = err_not_found
    /\ db[log[i].path[3]] = log[i].body
    /\ log[m].handler = "req_get" /\ log[m].arm = "none"
    /\ log[m].resp = log[j].resp

(* C11: when the engine fails a get, insert or remove, the handler answers *)
(* 500 with the error body (code -500, "internal server error"), and only  *)
(* then; the failure stays inside the handler: the lock is held by nobody  *)
(* but a worker inside a handler, and every request that takes the lock    *)
(* after a failed one and whose own call succeeds is answered 200 or 404.  *)
C11_EngineFailure500 ==
  /\ \A i \in 1..Len(log) :
       log[i].handler \in StoreOps
         => /\ (log[i].calls = 1 /\ ~log[i].ok) => log[i].resp = err_500
            /\ log[i].resp.status = 500 => (log[i].calls = 1 /\ ~log[i].ok)
  /\ lock # NoHolder => pc[lock] = "held"
  /\ \A i \in 1..Len(log) : \A j \in (i + 1)..Len(log) :
       (log[i].resp.status = 500 /\ log[j].handler \in StoreOps /\ log[j].ok)
         => log[j].tk > log[i].tk /\ log[j].resp.status \in {200, 404}

(* A PUT the engine failed was answered 500, the lock is free again, and   *)
(* a later PUT and GET of the same key were answered 200.                  *)
C11_Witness ==
  /\ lock = NoHolder
  /\ \E i \in 1..Len(log) : \E j \in (i + 1)..Len(log) :
       \E m \in (j + 1)..Len(log) :
         /\ log[i].handler = "req_put" /\ log[i].resp = err_500
         /\ log[j].handler = "req_put" /\ Ok200(log[j])
         /\ log[j].path = log[i].path
         /\ log[m].handler = "req_get" /\ log[m].path = log[i].path
         /\ log[m].resp = ok_binary(log[j].body)

(* C12: GET, PUT and DELETE on /api/{key} (one segment after /api) reach   *)
(* the get, put and delete handlers; a GET that matches no route is        *)
(* answered 404 with the not-found error body; a request of another        *)
(* method that matches no route is answered 405.                           *)
C12_Routing ==
  \A i \in 1..Len(log) :
    LET e == log[i] IN
    /\ (Len(e.path) = 2 /\ e.path[1] = "api")
         => /\ e.method = "GET" => e.handler = "req_get"
            /\ e.method = "PUT" => e.handler = "req_put"
            /\ e.method = "DELETE" => e.handler = "req_delete"
    /\ (~IsHandler(e.handler) /\ e.method = "GET") => e.resp = err_not_found
    /\ (~IsHandler(e.handler) /\ e.method # "GET") => e.resp.status = 405

----------------------------------------------------------------------------
(* Startup claims, on the process from its launch. *)

(* The configuration file cannot be used: it is missing or unreadable, it  *)
(* is not JSON, or it is JSON without the list of databases.               *)
ConfigUnusable(f) == ~f.readable \/ ~f.json \/ ~f.has_databases

(* The database entry the file asks for. *)
Wanted(f) ==
  IF f.databases = <<>> THEN DbConfig("db", "db.kv") ELSE Head(f.databases)

(* C13: when the configuration file is missing, unreadable or malformed,   *)
(* or the store cannot be opened at the configured path, the process never *)
(* serves: no request is dispatched or answered.  A process that serves    *)
(* has read and parsed its file and opened the store the file resolves to. *)
C13_StartupFatal ==
  /\ (ConfigUnusable(boot.file) \/ Wanted(boot.file).path = BadDir)
       => boot.phase # "serving"
  /\ boot.phase # "serving" => (log = <<>> /\ InFlight = {} /\ boot.built = 0)
  /\ boot.phase = "serving"
       => /\ ~ConfigUnusable(boot.file)
          /\ boot.path = Wanted(boot.file).path /\ boot.path # BadDir
          /\ boot.built = 1

(* The process exited on a well-formed file whose store could not be       *)
(* opened.                                                                 *)
C13_Witness ==
  /\ boot.phase = "exited"
  /\ ~ConfigUnusable(boot.file) /\ Wanted(boot.file).path = BadDir
  /\ log = <<>>

(* C14: a configuration file of the single-object shape                    *)
(* {"database": {"name": N, "path": P}} is accepted at startup and yields  *)
(* a ServerState whose nickname is N and whose store is opened at P.       *)
C14_SingleObjectAccepted ==
  (/\ boot.phase # "start"
   /\ boot.file.readable /\ boot.file.json
   /\ boot.file.has_database /\ ~boot.file.has_databases
   /\ boot.file.database.path # BadDir)
    => /\ boot.phase = "serving"
       /\ name = boot.file.database.name
       /\ boot.path = boot.file.database.path

(* C16: when the configuration lists several databases only the first is   *)
(* honored: the nickname and the store path are those of entry 0, the      *)
(* other entries are ignored, and one store is opened.                     *)
C16_FirstEntryOnly ==
  (boot.phase = "serving" /\ Len(boot.file.databases) >= 2)
    => /\ name = Head(boot.file.databases).name
       /\ boot.path = Head(boot.file.databases).path
       /\ boot.built = 1
       /\ \A i \in 1..Len(log) :
            (log[i].handler \in StoreOps
               /\ log[i].path[2] # Head(boot.file.databases).name)
              => log[i].resp = err_not_found

(* A process configured with two databases serves under the nickname of    *)
(* the first: a PUT to it was answered 200 and a PUT to the nickname of    *)
(* the second was answered 404.                                            *)
C16_Witness ==
  /\ boot.phase = "serving" /\ Len(boot.file.databases) = 2
  /\ boot.file.databases[1].name # boot.file.databases[2].name
  /\ boot.file.databases[1].path # boot.file.databases[2].path
  /\ \E i \in 1..Len(log), j \in 1..Len(log) :
       /\ log[i].handler = "req_put" /\ Ok200(log[i])
       /\ log[i].path[2] = boot.file.databases[1].name
       /\ log[j].handler = "req_put" /\ log[j].resp = err_not_found
       /\ log[j].path[2] = boot.file.databases[2].name

(* C17: the ServerState is constructed once, at startup, from the resolved *)
(* configuration, and is never replaced: in a serving process the nickname *)
(* and the store handle are those resolved from the file, and no step of a *)
(* serving process changes them or constructs another.                     *)
C17_StateImmutable ==
  /\ [](boot.phase = "serving"
         => /\ name = Wanted(boot.file).name
            /\ boot.path = Wanted(boot.file).path
            /\ boot.built = 1)
  /\ [][boot.phase = "serving" => (name' = name /\ boot' = boot)]_vars

(* A process configured with a nickname and a directory of its own has     *)
(* answered an index request, a PUT and a failed PUT, and still serves     *)
(* under that nickname.                                                    *)
C17_Witness ==
  /\ boot.phase = "serving" /\ boot.built = 1
  /\ name = "other" /\ boot.path = "other.kv"
  /\ \E i \in 1..Len(log), j \in 1..Len(log) :
       /\ log[i].handler = "req_index" /\ log[i].resp.dbs = <<name>>
       /\ log[j].handler = "req_put" /\ log[j].resp \in {ok_json_result, err_500}

----------------------------------------------------------------------------
(* C18: a request changes the store only when it is a PUT answered 200 or  *)
(* a DELETE answered 200, and then only the mapping of the key it          *)
(* addresses: a GET, the index request and every request answered 404 or   *)
(* 500 leave the store as it was, and no request changes another key.      *)
C18_Frame ==
  [][db' # db
       => /\ Len(log') = Len(log) + 1
          /\ LET e == log'[Len(log')] IN
             /\ e.method \in {"PUT", "DELETE"}
             /\ e.resp.status = 200
             /\ Len(e.path) = 3
             /\ \A k \in Keys \ {e.path[3]} : db'[k] = db[k]
             /\ db'[e.path[3]] = (IF e.method = "PUT" THEN e.body ELSE None)]_vars

(* Two keys were written; the DELETE of one was answered 200 and left the  *)
(* other in place.                                                         *)
C18_Witness ==
  \E k \in Keys : \E k2 \in Keys \ {k} :
    /\ db[k] = None /\ db[k2] # None
    /\ Len(log) >= 3
    /\ IsOn(log[Len(log)], "DELETE", k) /\ Ok200(log[Len(log)])
    /\ \E i \in 1..Len(log) : IsOn(log[i], "PUT", k2) /\ Ok200(log[i])
    /\ \E i \in 1..Len(log) : IsOn(log[i], "PUT", k) /\ Ok200(log[i])

----------------------------------------------------------------------------
(* The DELETEs of key k answered after entry p with no PUT of k since. *)
DeletesAfter(p, k) ==
  {j \in (p + 1)..Len(log) : IsOn(log[j], "DELETE", k) /\ NoPutBetween(p, j, k)}

(* C19: when several DELETEs of the same existing key run concurrently     *)
(* with no PUT of that key interleaving, exactly one of them returns 200   *)
(* and all the others return 404.                                          *)
C19_OneDeleteWins ==
  \A k \in Keys : \A p \in 1..Len(log) :
    (IsOn(log[p], "PUT", k) /\ Ok200(log[p])
       /\ Cardinality(DeletesAfter(p, k)) >= 2)
      => /\ Cardinality({j \in DeletesAfter(p, k) : Ok200(log[j])}) = 1
         /\ \A j \in DeletesAfter(p, k) : log[j].resp.status \in {200, 404}

(* C19, amended: among the DELETEs of an existing key that run with no PUT *)
(* of that key interleaving, at most one returns 200: the first whose      *)
(* engine call succeeds.  Every other one returns 404, or 500 when its own *)
(* engine call fails.                                                      *)
C19_OneDeleteWinsUnlessFailure ==
  \A k \in Keys : \A p \in 1..Len(log) :
    (IsOn(log[p], "PUT", k) /\ Ok200(log[p]))
      => /\ Cardinality({j \in DeletesAfter(p, k) : Ok200(log[j])}) <= 1
         /\ \A j \in DeletesAfter(p, k) :
              LET first == \A i \in DeletesAfter(p, k) : i < j => ~log[i].ok IN
              log[j].resp.status =
                (IF ~log[j].ok THEN 500 ELSE IF first THEN 200 ELSE 404)

(* Two DELETEs of a written key were in flight together: the one answered  *)
(* first got 200 while the other had not been answered, and the other got  *)
(* 404.                                                                    *)
C19_Witness ==
  \E k \in Keys : \E p \in 1..Len(log) :
    \E i \in DeletesAfter(p, k) : \E j \in DeletesAfter(p, k) :
      /\ IsOn(log[p], "PUT", k) /\ Ok200(log[p])
      /\ i < j
      /\ Ok200(log[i]) /\ log[i].overlap
      /\ log[j].resp = err_not_found /\ log[j].path = log[i].path

----------------------------------------------------------------------------
(* C20: the lock is released on every handler path (success, absence,      *)
(* engine failure, nickname mismatch) and no handler waits while holding   *)
(* it: the lock is held only by a worker inside a handler, every return    *)
(* frees it and sends exactly one response, and under fair scheduling      *)
(* every dispatched request eventually acquires the lock and is answered.  *)
C20_LockReleased ==
  /\ [](lock # NoHolder => pc[lock] = "held")
  /\ [][\A w \in Workers :
          (pc[w] # "idle" /\ pc'[w] = "idle")
            => /\ pc[w] = "held" /\ lock = w /\ lock' = NoHolder
               /\ Len(log') = Len(log) + 1]_vars
  /\ [][Len(log') # Len(log)
          => Cardinality({w \in Workers : pc[w] = "held" /\ pc'[w] = "idle"}) = 1]_vars
  /\ \A w \in Workers : (pc[w] = "wait") ~> (pc[w] = "held")
  /\ \A w \in Workers : (pc[w] = "held") ~> (pc[w] = "idle" /\ lock # w)

(* A request returned early on a nickname mismatch, and the lock it held   *)
(* is now held by the second worker, whose request was received while     *)
(* the first was still in flight.                                          *)
C20_Witness ==
  /\ Len(log) = 1 /\ log[1].arm = "nickname" /\ log[1].resp = err_not_found
  /\ pc[1] = "idle"
  /\ pc[2] = "held" /\ lock = 2 /\ ticket[2] = 2

====
